---- MODULE Spec2Model ----
(***************************************************************************)
(* MemTableFile (src/core/src/db/insert/MemTableFile.cpp): the bounded     *)
(* in-memory write buffer in front of one segment file.  One object is     *)
(* modelled together with the collaborators it calls: the catalog (meta_), *)
(* the vector source handed to Add, and the segment writer.                *)
(***************************************************************************)
EXTENDS Integers, Sequences, FiniteSets, TLC

(* ------------------------------ bounds --------------------------------- *)

\* db/Constants.h sets 128 MB; the model runs the same arithmetic on a small
\* budget that the per-vector sizes below do not all divide.
MAX_TABLE_FILE_MEM == 9

\* table_file_schema_.dimension_ ranges over 0..MaxDimension.
MaxDimension == 2

\* A source holds at most MaxAvail pending vectors when Add is called.
MaxAvail == 2

\* A source is offered only while the live segment and the source together
\* hold at most MaxVectors vectors.
MaxVectors == 2

\* The tombstone list is cut off at MaxDeleted entries.
MaxDeleted == 2

\* table_file_schema_.index_file_size_ of the table, in bytes.
IndexFileSize == 4

\* The rotation scenario: a source offers at most MaxOffered vectors, to at
\* most MaxBuffers fresh buffers of a table of dimension 1..MaxRotateDimension.
MaxOffered == 10

MaxBuffers == 4

MaxRotateDimension == 4

(* ---------------------------- constants -------------------------------- *)

FLOAT_TYPE_SIZE == 4

UINT8_SIZE == 1

\* size_t arithmetic wraps; the width is scaled down with the budget.
SizeMod == 2 ^ 16

Ids == {1, 2}

\* The segment's vector groups: a source writes under the file's own name.
Groups == {"file_id"}

StandardMetrics == {"L2"}

BinaryMetrics == {"HAMMING"}

\* The engine types a table of the given metric type can be configured with.
EngineTypes(metric_type) ==
    IF metric_type \in BinaryMetrics
    THEN {"FAISS_BIN_IDMAP", "FAISS_BIN_IVFFLAT"}
    ELSE {"FAISS_IDMAP", "FAISS_IVFFLAT"}

Min(a, b) == IF a <= b THEN a ELSE b

(* ------------------------------ state ---------------------------------- *)

VARIABLES
    create_status,        \* what CreateTableFile returned to the constructor
    table_file_schema_,   \* the file schema record held by the object
    segment_writer_ptr_,  \* "null" or "writer"
    current_mem_,         \* the byte counter
    insert_cache_immediately_, \* options_.insert_cache_immediately_
    vectors,              \* the segment: group -> [uids, data]
    deleted_docs,         \* the segment's tombstone list
    persisted,            \* the segment writer has written the segment durably
    cached,               \* the segment writer's cache has been requested
    meta_file,            \* the catalog's record of this file: {} or {record}
    flushed,              \* a Serialize has returned OK after a durable write
    crashed,              \* the process died on undefined behaviour
    last,                 \* the last call: what it returned and what it asked
    rotation              \* one source applied to fresh buffers in sequence

vars == <<create_status, table_file_schema_, segment_writer_ptr_, current_mem_,
          insert_cache_immediately_, vectors, deleted_docs, persisted, cached,
          meta_file, flushed, crashed, last, rotation>>

(* --------------------------- collaborators ----------------------------- *)

\* server::ValidationUtil::IsBinaryMetricType
IsBinaryMetricType(metric_type) == metric_type \in BinaryMetrics

\* Element width of the table's vectors: one byte per binary element, four
\* per float element.
ElementWidth(metric_type) ==
    IF IsBinaryMetricType(metric_type) THEN UINT8_SIZE ELSE FLOAT_TYPE_SIZE

\* A default-constructed meta::TableFileSchema.
DefaultSchema ==
    [dimension_ |-> 0, metric_type_ |-> "L2", engine_type_ |-> "FAISS_IDMAP",
     index_file_size_ |-> IndexFileSize, file_type_ |-> "NEW"]

\* The records meta_->CreateTableFile can fill in for a table.
CatalogSchemas ==
    UNION { { [dimension_ |-> d, metric_type_ |-> m, engine_type_ |-> e,
                index_file_size_ |-> IndexFileSize, file_type_ |-> "NEW"] :
                d \in 0..MaxDimension, e \in EngineTypes(m) } :
            m \in StandardMetrics \cup BinaryMetrics }

\* A vector source as one Add call sees it: the group it writes to, whether
\* its add succeeds, and the ids of the vectors it can push (all its pending
\* vectors when it succeeds, those it pushes before failing when it fails).
Sources ==
    UNION { [ids : [1..n -> Ids], group : Groups, ok : BOOLEAN] : n \in 0..MaxAvail }

\* VectorSource::SingleVectorSize: the byte footprint of one vector of the
\* table under the source's encoding.
SingleVectorSize(metric_type, dimension) == dimension * ElementWidth(metric_type)

\* The payload bytes of the vector with id uid, each byte tagged by its owner.
Payload(uid, code_length) == [i \in 1..code_length |-> uid]

RECURSIVE Payloads(_, _)
Payloads(ids, code_length) ==
    IF ids = <<>> THEN <<>>
    ELSE Payload(Head(ids), code_length) \o Payloads(Tail(ids), code_length)

\* SegmentWriter::AddVectors: append ids and their payloads to one group.
AddVectors(vecs, group, ids, code_length) ==
    [vecs EXCEPT ![group] =
        [uids |-> @.uids \o ids, data |-> @.data \o Payloads(ids, code_length)]]

\* Mutant of the search: end() is not told apart from the first entry.
FindOffset_EndIsFirst(uids, doc_id) ==
    IF \E i \in 1..Len(uids) : uids[i] = doc_id
    THEN (CHOOSE i \in 1..Len(uids) :
              uids[i] = doc_id /\ \A j \in 1..(i - 1) : uids[j] # doc_id) - 1
    ELSE 0

\* std::find over the ids followed by std::distance: the 0-based offset of the
\* first match, or -1 for end().
FindOffset(uids, doc_id) ==
    IF \E i \in 1..Len(uids) : uids[i] = doc_id
    THEN (CHOOSE i \in 1..Len(uids) :
              uids[i] = doc_id /\ \A j \in 1..(i - 1) : uids[j] # doc_id) - 1
    ELSE -1

\* segment::Vectors::Erase(offset, vector_type_size): drop the id at offset and
\* the code_length bytes that start at offset * code_length.
Erase(buf, offset, code_length) ==
    [uids |-> SubSeq(buf.uids, 1, offset) \o SubSeq(buf.uids, offset + 2, Len(buf.uids)),
     data |-> SubSeq(buf.data, 1, offset * code_length)
              \o SubSeq(buf.data, (offset + 1) * code_length + 1, Len(buf.data))]

TotalVectors(vecs) ==
    LET RECURSIVE Sum(_)
        Sum(gs) == IF gs = {} THEN 0
                   ELSE LET g == CHOOSE x \in gs : TRUE
                        IN Len(vecs[g].uids) + Sum(gs \ {g})
    IN Sum(Groups)

EmptySegment == [g \in Groups |-> [uids |-> <<>>, data |-> <<>>]]

NoCall ==
    [op |-> "none", status |-> "OK", source_called |-> FALSE,
     num_vectors_to_add |-> 0, num_vectors_added |-> 0, doc_id |-> 0,
     erased |-> 0, size |-> 0, segment_ok |-> FALSE, calls |-> <<>>]

\* No rotation scenario is running.
NoRotation ==
    [budget |-> 0, dimension_ |-> 0, metric_type_ |-> "L2", offered |-> 0,
     pending |-> 0, current_mem_ |-> 0, fresh |-> FALSE, buffers |-> <<>>]

(* ---------------------------- MemTableFile ----------------------------- *)

\* MemTableFile::MemTableFile and CreateTableFile: current_mem_ = 0; the schema
\* is the catalog's record when CreateTableFile succeeds and stays default
\* constructed when it fails; the segment writer exists only on success.
Init ==
    /\ create_status \in {"OK", "META_ERROR"}
    /\ IF create_status = "OK"
         THEN /\ table_file_schema_ \in CatalogSchemas
              /\ segment_writer_ptr_ = "writer"
              /\ meta_file = {table_file_schema_}
         ELSE /\ table_file_schema_ = DefaultSchema
              /\ segment_writer_ptr_ = "null"
              /\ meta_file = {}
    /\ current_mem_ = 0
    /\ insert_cache_immediately_ \in BOOLEAN
    /\ vectors = EmptySegment
    /\ deleted_docs = <<>>
    /\ persisted = FALSE
    /\ cached = FALSE
    /\ flushed = FALSE
    /\ crashed = FALSE
    /\ last = NoCall
    /\ rotation = NoRotation

\* MemTableFile::GetCurrentMem
GetCurrentMem == current_mem_

\* The unsigned subtraction of GetMemLeft.
MemLeft(budget, mem) == (budget - mem) % SizeMod

\* MemTableFile::GetMemLeft
GetMemLeft == MemLeft(MAX_TABLE_FILE_MEM, current_mem_)

\* MemTableFile::IsFull
IsFull == GetMemLeft < table_file_schema_.dimension_ * FLOAT_TYPE_SIZE

\* Mutants of the dimension guard: a strict comparison, and no guard.
DimensionRejected_Negative(dimension) == dimension < 0

DimensionRejected_Never(dimension) == FALSE

\* Add's guard on the schema: dimension_ is unsigned, so <= 0 is = 0.
DimensionRejected(dimension) == dimension <= 0

\* Mutant of the room guard: any room left counts.
HasRoom_NonZero(mem_left, single_vector_mem_size) == mem_left > 0

\* Add's guard on the room left.
HasRoom(mem_left, single_vector_mem_size) == mem_left >= single_vector_mem_size

\* std::ceil applied to an integer quotient: the size_t is converted to a
\* double, which is exact below 2^53 (the budget is 2^27), and comes back as is.
Ceil(x) == x

\* Mutant of the count: the quotient rounded up, as std::ceil of a real
\* quotient would be.
NumVectorsToAdd_RoundUp(mem_left, single_vector_mem_size) ==
    (mem_left + single_vector_mem_size - 1) \div single_vector_mem_size

\* num_vectors_to_add: the unsigned division truncates before std::ceil sees it.
NumVectorsToAdd(mem_left, single_vector_mem_size) ==
    Ceil(mem_left \div single_vector_mem_size)

\* Mutant of the counter update: the status of the source's add is ignored.
NewCurrentMem_Always(status_ok, mem, num_vectors_added, single_vector_mem_size) ==
    (mem + num_vectors_added * single_vector_mem_size) % SizeMod

\* Mutant of the counter update: a failed add rolls the counter back to zero.
NewCurrentMem_ResetOnFailure(status_ok, mem, num_vectors_added, single_vector_mem_size) ==
    IF status_ok THEN (mem + num_vectors_added * single_vector_mem_size) % SizeMod
    ELSE 0

\* current_mem_ after the source's add returned.
NewCurrentMem(status_ok, mem, num_vectors_added, single_vector_mem_size) ==
    IF status_ok THEN (mem + num_vectors_added * single_vector_mem_size) % SizeMod
    ELSE mem

\* Mutant of the schema after Add: Add classifies the file.
SchemaAfterAdd_MarksRaw(schema) == [schema EXCEPT !.file_type_ = "RAW"]

\* The schema after Add: it is read, and handed to the source, never assigned.
SchemaAfterAdd(schema) == schema

\* MemTableFile::Add
Add ==
    /\ ~crashed
    /\ \E source \in Sources :
         /\ TotalVectors(vectors) + Len(source.ids) <= MaxVectors
         /\ IF DimensionRejected(table_file_schema_.dimension_)
            THEN /\ last' = [NoCall EXCEPT !.op = "Add", !.status = "DB_ERROR"]
                 /\ UNCHANGED <<current_mem_, vectors, crashed>>
            ELSE LET single_vector_mem_size ==
                         SingleVectorSize(table_file_schema_.metric_type_,
                                          table_file_schema_.dimension_)
                     mem_left == GetMemLeft
                 IN  IF ~HasRoom(mem_left, single_vector_mem_size)
                     THEN /\ last' = [NoCall EXCEPT !.op = "Add"]
                          /\ UNCHANGED <<current_mem_, vectors, crashed>>
                     ELSE IF single_vector_mem_size = 0 \/ segment_writer_ptr_ = "null"
                     THEN \* a division by zero, or the source writes through a
                          \* null writer: the process dies
                          /\ crashed' = TRUE
                          /\ last' = [NoCall EXCEPT !.op = "Add", !.status = "DIED"]
                          /\ UNCHANGED <<current_mem_, vectors>>
                     ELSE LET num_vectors_to_add ==
                                  NumVectorsToAdd(mem_left, single_vector_mem_size)
                              supplied == Min(num_vectors_to_add, Len(source.ids))
                          IN  /\ vectors' = AddVectors(vectors, source.group,
                                                SubSeq(source.ids, 1, supplied),
                                                single_vector_mem_size)
                              /\ current_mem_' = NewCurrentMem(source.ok, current_mem_,
                                                     supplied, single_vector_mem_size)
                              /\ last' = [NoCall EXCEPT
                                            !.op = "Add",
                                            !.status = IF source.ok THEN "OK"
                                                       ELSE "SOURCE_ERROR",
                                            !.source_called = TRUE,
                                            !.num_vectors_to_add = num_vectors_to_add,
                                            !.num_vectors_added =
                                                IF source.ok THEN supplied ELSE 0]
                              /\ UNCHANGED crashed
    /\ table_file_schema_' = SchemaAfterAdd(table_file_schema_)
    /\ UNCHANGED <<create_status, segment_writer_ptr_,
                   insert_cache_immediately_, deleted_docs, persisted, cached,
                   meta_file, flushed, rotation>>

\* Mutant of the element width: the float width whatever the metric type.
VectorTypeSize_Float(metric_type) == FLOAT_TYPE_SIZE

\* Delete's choice of the element width.
VectorTypeSize(metric_type) ==
    IF IsBinaryMetricType(metric_type) THEN UINT8_SIZE ELSE FLOAT_TYPE_SIZE

\* Mutant of the loop body: every entry with the id is erased, not the first.
RECURSIVE EraseIfFound_All(_, _, _, _)
EraseIfFound_All(buf, doc_id, dimension, vector_type_size) ==
    LET offset == FindOffset(buf.uids, doc_id)
    IN  IF offset >= 0
        THEN EraseIfFound_All(Erase(buf, offset, dimension * vector_type_size),
                              doc_id, dimension, vector_type_size)
        ELSE buf

\* The body of Delete's loop for one group: erase at the first match, if any.
EraseIfFound(buf, doc_id, dimension, vector_type_size) ==
    LET offset == FindOffset(buf.uids, doc_id)
    IN  IF offset >= 0 THEN Erase(buf, offset, dimension * vector_type_size) ELSE buf

\* MemTableFile::Delete.  Without a segment writer the first statement reads
\* through a null pointer: the process dies, or the read comes back empty.
Delete ==
    /\ ~crashed
    /\ Len(deleted_docs) < MaxDeleted
    /\ \E doc_id \in Ids :
         \E survives \in (IF segment_writer_ptr_ = "null" THEN BOOLEAN ELSE {TRUE}) :
            IF ~survives
            THEN /\ crashed' = TRUE
                 /\ last' = [NoCall EXCEPT !.op = "Delete", !.status = "DIED"]
                 /\ UNCHANGED <<vectors, deleted_docs>>
            ELSE /\ vectors' =
                       [g \in Groups |->
                           EraseIfFound(vectors[g], doc_id, table_file_schema_.dimension_,
                               VectorTypeSize(table_file_schema_.metric_type_))]
                 /\ deleted_docs' = Append(deleted_docs, doc_id)
                 /\ last' = [NoCall EXCEPT !.op = "Delete", !.doc_id = doc_id,
                                            !.erased = TotalVectors(vectors)
                                                       - TotalVectors(vectors')]
                 /\ UNCHANGED crashed
    /\ UNCHANGED <<create_status, table_file_schema_, segment_writer_ptr_,
                   current_mem_, insert_cache_immediately_, persisted, cached,
                   meta_file, flushed, rotation>>

\* Serialize's test for the engines that never get an index.
IsIdMap(engine_type) == engine_type = "FAISS_IDMAP" \/ engine_type = "FAISS_BIN_IDMAP"

\* Mutant of the file type: a file of exactly index_file_size_ stays RAW.
FileType_Strict(engine_type, size, index_file_size) ==
    IF ~IsIdMap(engine_type)
    THEN (IF size > index_file_size THEN "TO_INDEX" ELSE "RAW")
    ELSE "RAW"

\* The file type Serialize sets.
FileType(engine_type, size, index_file_size) ==
    IF ~IsIdMap(engine_type)
    THEN (IF size >= index_file_size THEN "TO_INDEX" ELSE "RAW")
    ELSE "RAW"

\* Mutant of the return value: the catalog's failure is dropped.
SerializeStatus_Ok(segment_ok, update_ok) == "OK"

\* What Serialize returns: the status of meta_->UpdateTableFile.
SerializeStatus(segment_ok, update_ok) == IF update_ok THEN "OK" ELSE "META_ERROR"

\* Mutant of the calls: the cache is requested whatever the option says.
SerializeCalls_CacheAlways(cache_immediately) ==
    <<"SegmentWriter::Serialize", "Meta::UpdateTableFile", "SegmentWriter::Cache">>

\* The collaborator calls of one Serialize, in order.
SerializeCalls(cache_immediately) ==
    <<"SegmentWriter::Serialize", "Meta::UpdateTableFile">>
        \o (IF cache_immediately THEN <<"SegmentWriter::Cache">> ELSE <<>>)

\* MemTableFile::Serialize.  segment_ok and update_ok are the outcomes of the
\* durable write and of the catalog update.  The owner calls Serialize once per
\* object: the file type is still the one construction left.
Serialize ==
    /\ ~crashed
    /\ table_file_schema_.file_type_ = "NEW"
    /\ \E segment_ok \in BOOLEAN, update_ok \in BOOLEAN :
         \E survives \in (IF segment_writer_ptr_ = "null" THEN BOOLEAN ELSE {TRUE}) :
            IF ~survives
            THEN /\ crashed' = TRUE
                 /\ last' = [NoCall EXCEPT !.op = "Serialize", !.status = "DIED"]
                 /\ UNCHANGED <<table_file_schema_, persisted, cached, meta_file, flushed>>
            ELSE LET size == GetCurrentMem
                     written == segment_writer_ptr_ = "writer" /\ segment_ok
                     status == SerializeStatus(written, update_ok)
                     schema == [table_file_schema_ EXCEPT !.file_type_ =
                                    FileType(table_file_schema_.engine_type_, size,
                                             table_file_schema_.index_file_size_)]
                 IN  /\ persisted' = (persisted \/ written)
                     /\ table_file_schema_' = schema
                     /\ meta_file' = IF update_ok THEN {schema} ELSE meta_file
                     /\ cached' = (cached \/ (insert_cache_immediately_
                                              /\ segment_writer_ptr_ = "writer"))
                     /\ flushed' = (flushed \/ (written /\ status = "OK"))
                     /\ last' = [NoCall EXCEPT
                                   !.op = "Serialize", !.status = status,
                                   !.size = size, !.segment_ok = written,
                                   !.calls = SerializeCalls(insert_cache_immediately_)]
                     /\ UNCHANGED crashed
    /\ UNCHANGED <<create_status, segment_writer_ptr_, current_mem_,
                   insert_cache_immediately_, vectors, deleted_docs, rotation>>

Next == Add \/ Delete \/ Serialize

Spec == Init /\ [][Next]_vars

(* ------------- one source applied to fresh buffers in turn -------------- *)

\* The budgets the rotation scenario is run with.
RotateBudgets == {MAX_TABLE_FILE_MEM, 64}

\* A source that offers its vectors to a first, fresh buffer.
RotationStarts ==
    { [budget |-> b, dimension_ |-> d, metric_type_ |-> m, offered |-> n,
       pending |-> n, current_mem_ |-> 0, fresh |-> TRUE, buffers |-> <<>>] :
        b \in RotateBudgets, d \in 1..MaxRotateDimension,
        m \in StandardMetrics \cup BinaryMetrics, n \in 0..MaxOffered }

\* The MemTableFile variables do not take part in the rotation scenario.
InitRotate ==
    /\ create_status = "OK"
    /\ table_file_schema_ = DefaultSchema
    /\ segment_writer_ptr_ = "writer"
    /\ meta_file = {table_file_schema_}
    /\ current_mem_ = 0
    /\ insert_cache_immediately_ = FALSE
    /\ vectors = EmptySegment
    /\ deleted_docs = <<>>
    /\ persisted = FALSE
    /\ cached = FALSE
    /\ flushed = FALSE
    /\ crashed = FALSE
    /\ last = NoCall
    /\ rotation \in RotationStarts

\* MemTableFile::Add on the fresh buffer, with a source that succeeds and
\* supplies what it still holds, up to the count it is asked for.
RotateAdd ==
    /\ rotation.fresh
    /\ LET single_vector_mem_size ==
                SingleVectorSize(rotation.metric_type_, rotation.dimension_)
           mem_left == MemLeft(rotation.budget, rotation.current_mem_)
           called == /\ ~DimensionRejected(rotation.dimension_)
                     /\ HasRoom(mem_left, single_vector_mem_size)
           supplied == IF called
                       THEN Min(NumVectorsToAdd(mem_left, single_vector_mem_size),
                                rotation.pending)
                       ELSE 0
           mem == IF called
                  THEN NewCurrentMem(TRUE, rotation.current_mem_, supplied,
                                     single_vector_mem_size)
                  ELSE rotation.current_mem_
       IN  rotation' = [rotation EXCEPT
                           !.pending = @ - supplied,
                           !.current_mem_ = mem,
                           !.fresh = FALSE,
                           !.buffers = Append(@, [admitted |-> supplied, usage |-> mem])]
    /\ UNCHANGED <<create_status, table_file_schema_, segment_writer_ptr_,
                   current_mem_, insert_cache_immediately_, vectors, deleted_docs,
                   persisted, cached, meta_file, flushed, crashed, last>>

\* MemTableFile::MemTableFile: the owner opens the next buffer for what the
\* source still holds; current_mem_ starts at 0.
RotateOpen ==
    /\ ~rotation.fresh
    /\ rotation.pending > 0
    /\ Len(rotation.buffers) < MaxBuffers
    /\ rotation' = [rotation EXCEPT !.current_mem_ = 0, !.fresh = TRUE]
    /\ UNCHANGED <<create_status, table_file_schema_, segment_writer_ptr_,
                   current_mem_, insert_cache_immediately_, vectors, deleted_docs,
                   persisted, cached, meta_file, flushed, crashed, last>>

NextRotate == RotateAdd \/ RotateOpen

SpecRotate == InitRotate /\ [][NextRotate]_vars

(* ------------------------------ claims --------------------------------- *)

\* The per-vector size Add obtains from the source for this table.
PerVectorSize ==
    SingleVectorSize(table_file_schema_.metric_type_, table_file_schema_.dimension_)

\* floor(a / b) for b > 0, by its defining inequalities.
Floor(a, b) == CHOOSE q \in 0..a : q * b <= a /\ a < (q + 1) * b

\* The step just taken was a call of Add.
AddStep == last'.op = "Add" /\ vars' # vars

\* The number of vectors the step appended to the segment.
Appended == TotalVectors(vectors') - TotalVectors(vectors)

\* The step left the counter, the segment buffers and the tombstones alone.
NoMutation ==
    /\ current_mem_' = current_mem_
    /\ vectors' = vectors
    /\ deleted_docs' = deleted_docs

\* C1: after every Add call, whatever the source supplied and whether it
\* succeeded or failed, currentUsage() is at most the budget.
C1_UsageWithinBudget == GetCurrentMem <= MAX_TABLE_FILE_MEM

\* C1 witness: a successful Add has filled the buffer up to a remainder that
\* is smaller than one vector.
C1_Witness ==
    /\ last.op = "Add" /\ last.status = "OK" /\ last.num_vectors_added > 0
    /\ MAX_TABLE_FILE_MEM - current_mem_ > 0
    /\ MAX_TABLE_FILE_MEM - current_mem_ < PerVectorSize

\* C2: every Add call that reaches the source hands it exactly
\* floor(remaining / perVectorSize) as the maximum count, and the call admits
\* no more than that.
C2_MaxCountIsFloor ==
    [][(AddStep /\ last'.source_called) =>
          /\ last'.num_vectors_to_add = Floor(GetMemLeft, PerVectorSize)
          /\ last'.num_vectors_added <= Floor(GetMemLeft, PerVectorSize)
          /\ Appended <= Floor(GetMemLeft, PerVectorSize)]_vars

\* C2 witness: the source was asked for one vector although two would fit
\* after rounding up, supplied it, and a remainder is left.
C2_Witness ==
    /\ last.op = "Add" /\ last.source_called
    /\ last.num_vectors_to_add = 1 /\ last.num_vectors_added = 1
    /\ current_mem_ = PerVectorSize
    /\ GetMemLeft > 0 /\ GetMemLeft < PerVectorSize

\* C3: an Add call with a positive dimension and less room than one vector
\* returns OK, does not call the source and changes neither the counter nor
\* the segment.
C3_ZeroAdmission ==
    [][(AddStep /\ table_file_schema_.dimension_ > 0 /\ GetMemLeft < PerVectorSize) =>
          /\ last'.status = "OK"
          /\ ~last'.source_called
          /\ last'.num_vectors_added = 0
          /\ NoMutation]_vars

\* C3 witness: Add returned OK without calling the source on a buffer that
\* holds data and has less room than one vector.
C3_Witness ==
    /\ last.op = "Add" /\ last.status = "OK" /\ ~last.source_called
    /\ table_file_schema_.dimension_ > 0
    /\ current_mem_ > 0 /\ GetMemLeft < PerVectorSize

\* C4: when the source's add succeeded the counter grew by the admitted count
\* times the per-vector size; when it failed the counter is unchanged and Add
\* returns the source's failure.
C4_CounterFollowsSource ==
    [][(AddStep /\ last'.source_called) =>
          IF last'.status = "OK"
          THEN /\ current_mem_' = current_mem_ + last'.num_vectors_added * PerVectorSize
               /\ last'.num_vectors_added = Appended
          ELSE /\ current_mem_' = current_mem_
               /\ last'.status = "SOURCE_ERROR"]_vars

\* C4 witness: the source failed after pushing a vector, and the counter is
\* still zero.
C4_Witness ==
    /\ last.op = "Add" /\ last.source_called /\ last.status = "SOURCE_ERROR"
    /\ TotalVectors(vectors) > 0
    /\ current_mem_ = 0

\* C5: an Add call on a schema whose dimension is not positive returns the
\* configuration error and mutates nothing: no source call, same counter,
\* same segment buffers, same tombstones.
C5_BadDimensionRejected ==
    [][(AddStep /\ table_file_schema_.dimension_ <= 0) =>
          /\ last'.status = "DB_ERROR"
          /\ ~last'.source_called
          /\ ~crashed'
          /\ NoMutation]_vars

\* C5 witness: Add was rejected on an object that has a segment writer and a
\* zero dimension.
C5_Witness ==
    /\ last.op = "Add" /\ last.status = "DB_ERROR"
    /\ segment_writer_ptr_ = "writer"
    /\ table_file_schema_.dimension_ = 0

\* C6: when CreateTableFile failed at construction the object has no segment
\* writer, and every Add call is rejected with the configuration error, without
\* going through the absent writer and without changing the counter.
C6_FailedCreateRejectsAdd ==
    [][create_status # "OK" =>
          /\ segment_writer_ptr_ = "null"
          /\ (AddStep =>
                 /\ last'.status = "DB_ERROR"
                 /\ ~last'.source_called
                 /\ ~crashed'
                 /\ current_mem_' = current_mem_)]_vars

\* C6 witness: Add was rejected on an object whose construction failed.
C6_Witness ==
    /\ create_status = "META_ERROR"
    /\ segment_writer_ptr_ = "null"
    /\ last.op = "Add" /\ last.status = "DB_ERROR"
    /\ ~crashed

\* C7: in every reachable state remaining() is budget - currentUsage(), and
\* that difference is not negative (the unsigned subtraction never wraps).
C7_RemainingIsDifference ==
    /\ GetMemLeft = MAX_TABLE_FILE_MEM - GetCurrentMem
    /\ MAX_TABLE_FILE_MEM - GetCurrentMem >= 0

\* C7 witness: some of the budget is used and some is left.
C7_Witness ==
    /\ last.op = "Add" /\ current_mem_ > 0
    /\ GetMemLeft > 0 /\ GetMemLeft < MAX_TABLE_FILE_MEM

\* C8: isFull() is true iff remaining() is below dimension times the element
\* width of the table's metric type (4 bytes standard, 1 byte binary).
C8_IsFullByElementWidth ==
    IsFull <=>
        (GetMemLeft < table_file_schema_.dimension_
                        * ElementWidth(table_file_schema_.metric_type_))

C10_FlushIsTerminal ==
    [][(flushed /\ last'.op \in {"Add", "Delete"} /\ vars' # vars) =>
          /\ last'.status # "OK"
          /\ NoMutation]_vars

\* The last call was a Serialize that ran to its return statement on an object
\* that has a segment writer.
SerializeReturned ==
    last.op = "Serialize" /\ ~crashed /\ segment_writer_ptr_ = "writer"

\* The catalog does not hold the schema the object now has: UpdateTableFile
\* failed.
UpdateFailed == meta_file # {table_file_schema_}

\* C11: when the segment writer's durable write fails during Serialize,
\* Serialize does not return OK.
C11_SegmentFailureReported ==
    (SerializeReturned /\ ~last.segment_ok) => last.status # "OK"

\* C12: when UpdateTableFile fails during Serialize, Serialize returns that
\* failure, and a segment that was written stays written.
C12_UpdateFailureReported ==
    (SerializeReturned /\ UpdateFailed) =>
        /\ last.status = "META_ERROR"
        /\ (last.segment_ok => persisted)

\* C12 witness: Serialize wrote the segment, the catalog update failed and the
\* catalog still holds the record made at construction.
C12_Witness ==
    /\ SerializeReturned /\ last.status = "META_ERROR"
    /\ last.segment_ok /\ persisted
    /\ \A f \in meta_file : f.file_type_ = "NEW"
    /\ table_file_schema_.file_type_ # "NEW"

\* The step just taken was a call of Delete that returned.
DeleteStep == last'.op = "Delete" /\ last'.status # "DIED" /\ vars' # vars

\* The number of entries of uids that carry doc_id.
Occurrences(uids, doc_id) == Cardinality({i \in 1..Len(uids) : uids[i] = doc_id})

\* seq without its entry at the 1-based position pos.
Without(seq, pos) == [i \in 1..(Len(seq) - 1) |-> IF i < pos THEN seq[i] ELSE seq[i + 1]]

\* The 1-based position of the first entry of uids that carries doc_id.
FirstPosition(uids, doc_id) ==
    CHOOSE i \in 1..Len(uids) : uids[i] = doc_id /\ \A j \in 1..(i - 1) : uids[j] # doc_id

\* Every group's payload bytes are those of its ids, in order.
PayloadsMatchIds(vecs) ==
    \A g \in Groups : vecs[g].data = Payloads(vecs[g].uids, PerVectorSize)

\* C13: Delete of an id that is in the live buffer returns OK, removes from
\* the owning group exactly the one entry at the first matching offset (its id
\* and its payload bytes), and appends exactly one tombstone for the id.
C13_DeletePresent ==
    [][\A g \in Groups :
          (DeleteStep /\ Occurrences(vectors[g].uids, last'.doc_id) > 0) =>
              /\ last'.status = "OK"
              /\ vectors'[g].uids =
                     Without(vectors[g].uids, FirstPosition(vectors[g].uids, last'.doc_id))
              /\ Len(vectors'[g].data) = Len(vectors[g].data) - PerVectorSize
              /\ PayloadsMatchIds(vectors) => PayloadsMatchIds(vectors')
              /\ deleted_docs' = Append(deleted_docs, last'.doc_id)]_vars

\* C13 witness: the only Delete so far erased one entry of a buffer that held
\* two vectors.
C13_Witness ==
    /\ last.op = "Delete" /\ last.status = "OK" /\ last.erased = 1
    /\ deleted_docs = <<last.doc_id>>
    /\ TotalVectors(vectors) = 1
    /\ PayloadsMatchIds(vectors)

\* C14: Delete of an id that is in no group of the live buffer returns OK,
\* appends exactly one tombstone for the id and leaves every group's buffer,
\* the counter and the schema unchanged.
C14_DeleteAbsent ==
    [][(DeleteStep /\ \A g \in Groups : Occurrences(vectors[g].uids, last'.doc_id) = 0) =>
          /\ last'.status = "OK"
          /\ deleted_docs' = Append(deleted_docs, last'.doc_id)
          /\ vectors' = vectors
          /\ current_mem_' = current_mem_
          /\ table_file_schema_' = table_file_schema_]_vars

\* C14 witness: Delete of an id the non-empty buffer does not hold erased
\* nothing and left one tombstone.
C14_Witness ==
    /\ last.op = "Delete" /\ last.status = "OK" /\ last.erased = 0
    /\ deleted_docs = <<last.doc_id>>
    /\ TotalVectors(vectors) > 0
    /\ \A g \in Groups : Occurrences(vectors[g].uids, last.doc_id) = 0

\* The vectors the first k buffers of the rotation admitted.
RECURSIVE AdmittedBefore(_)
AdmittedBefore(k) ==
    IF k = 0 THEN 0 ELSE rotation.buffers[k].admitted + AdmittedBefore(k - 1)

\* The per-vector size and the capacity of one buffer of the rotation.
RotationVectorSize == rotation.dimension_ * ElementWidth(rotation.metric_type_)

RotationCapacity == Floor(rotation.budget, RotationVectorSize)

\* The rotation of the example: dimension 4, standard metric, budget 64, ten
\* vectors offered.
ExampleRotation ==
    /\ rotation.dimension_ = 4 /\ rotation.metric_type_ \in StandardMetrics
    /\ rotation.budget = 64 /\ rotation.offered = 10

\* C15: buffer k of a rotation admits min(C, vectors still pending), with
\* C = floor(budget / perVectorSize), and its usage is admitted * perVectorSize;
\* in the example the counts are 4, 4, 2 and no fourth buffer is opened.
C15_Rotation ==
    /\ \A k \in 1..Len(rotation.buffers) :
          /\ rotation.buffers[k].admitted =
                 Min(RotationCapacity, rotation.offered - AdmittedBefore(k - 1))
          /\ rotation.buffers[k].usage = rotation.buffers[k].admitted * RotationVectorSize
    /\ ExampleRotation =>
          /\ Len(rotation.buffers) <= 3
          /\ \A k \in 1..Len(rotation.buffers) :
                rotation.buffers[k].admitted = <<4, 4, 2>>[k]
          /\ (rotation.pending = 0 <=> Len(rotation.buffers) = 3)

\* C15 witness: the example has run to its end with 4, 4 and 2 vectors in
\* buffers that use 64, 64 and 32 bytes.
C15_Witness ==
    /\ ExampleRotation
    /\ rotation.pending = 0
    /\ rotation.buffers = <<[admitted |-> 4, usage |-> 64],
                            [admitted |-> 4, usage |-> 64],
                            [admitted |-> 2, usage |-> 32]>>

\* C16: no Add, whether it succeeds, fails or admits nothing, and no Delete,
\* also one that erases a live entry, lowers currentUsage().
C16_UsageMonotonic ==
    [][(last'.op \in {"Add", "Delete"}) => current_mem_' >= current_mem_]_vars

\* C16 witness: a Delete erased a live entry and the counter still counts it.
C16_Witness ==
    /\ last.op = "Delete" /\ last.erased = 1
    /\ ~flushed /\ table_file_schema_.file_type_ = "NEW"
    /\ TotalVectors(vectors) = 0
    /\ current_mem_ = PerVectorSize /\ current_mem_ > 0

\* The step just taken was a Delete of the id the call before it deleted.
RepeatedDeleteStep == DeleteStep /\ last.op = "Delete" /\ last'.doc_id = last.doc_id

\* The number of tombstones for doc_id.
Tombstones(docs, doc_id) == Occurrences(docs, doc_id)

\* C17 as stated: a repeated Delete of the same id leaves the live buffers as
\* the first call left them and adds one more tombstone for the id.
C17_RepeatedDeleteIdempotent ==
    [][RepeatedDeleteStep =>
          /\ vectors' = vectors
          /\ Tombstones(deleted_docs', last'.doc_id)
                 = Tombstones(deleted_docs, last'.doc_id) + 1]_vars

\* C17 amended: every Delete adds exactly one tombstone for its id and erases
\* at most one live entry per group, the first with that id; a repeated Delete
\* leaves the live buffers as they were iff no entry with the id was left.
C17_RepeatedDeleteErasesNext ==
    [][DeleteStep =>
          /\ Tombstones(deleted_docs', last'.doc_id)
                 = Tombstones(deleted_docs, last'.doc_id) + 1
          /\ Len(deleted_docs') = Len(deleted_docs) + 1
          /\ \A g \in Groups :
                /\ Occurrences(vectors'[g].uids, last'.doc_id) =
                       IF Occurrences(vectors[g].uids, last'.doc_id) = 0 THEN 0
                       ELSE Occurrences(vectors[g].uids, last'.doc_id) - 1
                /\ Len(vectors'[g].uids) >= Len(vectors[g].uids) - 1
          /\ (RepeatedDeleteStep =>
                 (vectors' = vectors <=>
                     \A g \in Groups : Occurrences(vectors[g].uids, last'.doc_id) = 0))]_vars

\* C17 witness: the buffer held the id twice, and the second of two Deletes of
\* the id erased the second entry.
C17_Witness ==
    /\ last.op = "Delete" /\ last.erased = 1
    /\ deleted_docs = <<last.doc_id, last.doc_id>>
    /\ TotalVectors(vectors) = 0
    /\ current_mem_ = 2 * PerVectorSize /\ current_mem_ > 0

\* The 1-based positions of a collaborator call among the calls of the last
\* Serialize.
CallPositions(call) == {i \in 1..Len(last.calls) : last.calls[i] = call}

\* C18: one Serialize writes the segment before it updates the catalog record,
\* and requests the segment writer's cache iff insert_cache_immediately_ is
\* set, once, after the segment write.
C18_SerializeOrder ==
    SerializeReturned =>
        /\ CallPositions("SegmentWriter::Serialize") = {1}
        /\ CallPositions("Meta::UpdateTableFile") = {2}
        /\ (CallPositions("SegmentWriter::Cache") # {} <=> insert_cache_immediately_)
        /\ \A i \in CallPositions("SegmentWriter::Cache") : i = 3
        /\ Len(last.calls) <= 3
        /\ (cached <=> insert_cache_immediately_)

\* C18 witness: a Serialize with the option set requested the cache last.
C18_Witness ==
    /\ SerializeReturned /\ insert_cache_immediately_ /\ cached
    /\ last.calls = <<"SegmentWriter::Serialize", "Meta::UpdateTableFile",
                      "SegmentWriter::Cache">>

\* C19: Add and Delete, whatever they return, leave the schema record alone;
\* until Serialize runs it is the record construction set, file type included.
C19_SchemaOnlyBySerialize ==
    [][(last'.op \in {"Add", "Delete"}) =>
          /\ table_file_schema_' = table_file_schema_
          /\ (create_status = "OK" /\ table_file_schema_.file_type_ = "NEW" =>
                 table_file_schema_' \in CatalogSchemas)
          /\ (create_status # "OK" /\ table_file_schema_.file_type_ = "NEW" =>
                 table_file_schema_' = DefaultSchema)]_vars

\* C19 witness: after an Add that admitted a vector the schema is still the
\* record the catalog made at construction.
C19_Witness ==
    /\ last.op = "Add" /\ last.status = "OK" /\ last.num_vectors_added > 0
    /\ table_file_schema_.file_type_ = "NEW"
    /\ meta_file = {table_file_schema_}

\* C20: with a positive dimension, for either metric type, isFull() is true
\* iff an Add call in the same state would admit nothing for lack of room.
C20_IsFullAgreesWithAdd ==
    (~crashed /\ table_file_schema_.dimension_ > 0) =>
        (IsFull <=> ~HasRoom(GetMemLeft, PerVectorSize))

====
